---- MODULE Spec2Model ----
(***************************************************************************)
(* gluestick/etl_utils.py: the row-hash snapshot of a stream and the two   *)
(* functions that read, merge and rewrite it, snapshot_records and         *)
(* drop_redundant.                                                         *)
(*                                                                         *)
(* A cell of a DataFrame column is <<dtype, text>>: the text is what       *)
(* astype(str) and to_csv give for it, the dtype ("int" or "str") is what  *)
(* pandas compares besides the text (1 and "1" are different values).      *)
(* A snapshot file holds text only; read_csv infers the dtype of a column  *)
(* from the texts it finds.                                                *)
(***************************************************************************)
EXTENDS Integers, Sequences, FiniteSets, TLC

VARIABLES files, pc, runs

vars == <<files, pc, runs>>

(***************************************************************************)
(* Bounds and input domains                                                *)
(***************************************************************************)
\* Longest batch / table handed to a call.
MaxBatchLen == 2

\* Stream names whose hash snapshot a behaviour of Spec touches.
Names == {"orders"}

\* Primary key cells of an integer column and of a string (object) column.
PKInts == {<<"int", "1">>}
PKStrs == {<<"str", "1">>, <<"str", "A">>}

\* Values of the two non-key columns a, b of a batch row.
Contents == {<<"a", "bc">>, <<"ab", "c">>, <<"a", "c">>}

\* The forms of the pk argument: a list of column names, or one bare name.
PkArgs == {[isList |-> TRUE, cols |-> <<>>],
           [isList |-> TRUE, cols |-> <<"id">>],
           [isList |-> FALSE, cols |-> <<"id">>]}

SeqsUpTo(S, n) == UNION {[1..k -> S] : k \in 0..n}

RowsOf(PKs) == {[id |-> p, a |-> c[1], b |-> c[2]] : p \in PKs, c \in Contents}

\* A batch: rows over the columns (id, a, b), the id column of one dtype.
Batches == SeqsUpTo(RowsOf(PKInts), MaxBatchLen) \cup SeqsUpTo(RowsOf(PKStrs), MaxBatchLen)

(***************************************************************************)
(* pandas helpers, as the calls in etl_utils.py use them                   *)
(***************************************************************************)
\* The rows of s at the positions in I, in order.
SelectIdx(s, I) ==
    LET F[i \in 0..Len(s)] ==
            IF i = 0 THEN <<>>
            ELSE IF i \in I THEN Append(F[i - 1], s[i]) ELSE F[i - 1]
    IN  F[Len(s)]

\* DataFrame.drop_duplicates(subset="id", keep=keep): index labels are kept.
drop_duplicates(s, keep) ==
    SelectIdx(s, {i \in 1..Len(s) :
        IF keep = "first"
        THEN \A j \in 1..(i - 1) : s[j].id # s[i].id
        ELSE \A j \in (i + 1)..Len(s) : s[j].id # s[i].id})

\* The default RangeIndex of a frame: row i carries label i - 1.
RangeIndex(s) == [i \in 1..Len(s) |-> [idx |-> i - 1] @@ s[i]]

\* Texts read_csv parses as integers.
IsIntText(t) == t \in {"0", "1", "2", "3", "4", "5", "6", "7", "8", "9"}

\* hashlib.md5(...).hexdigest(): a fixed-length digest, taken as injective; a
\* digest is never a text read_csv would parse as a number.
md5_hexdigest(s) == "#" \o s

\* get_row_hash: the column values' strings joined with no delimiter, hashed.
get_row_hash(row) == md5_hexdigest(row.id[2] \o row.a \o row.b)

(***************************************************************************)
(* Snapshot files                                                          *)
(***************************************************************************)
\* No file at the stream's path.
Absent == [exists |-> FALSE, cols |-> <<>>, rows |-> <<>>]

HasCol(cols, c) == \E i \in 1..Len(cols) : cols[i] = c

\* DataFrame.to_csv(path, index=False) of a table of (id, hash) rows: the whole
\* file is replaced by the header and one text line per row.
to_csv(cols, rows) ==
    [exists |-> TRUE, cols |-> cols,
     rows |-> [i \in 1..Len(rows) |->
                  [id |-> IF HasCol(cols, "id") THEN rows[i].id[2] ELSE "",
                   hash |-> rows[i].hash]]]

\* pd.read_csv of a snapshot file: the dtype of the id column is inferred,
\* integer when every cell parses as one, string otherwise.
IdDtype(file) ==
    IF Len(file.rows) > 0 /\ \A i \in 1..Len(file.rows) : IsIntText(file.rows[i].id)
    THEN "int" ELSE "str"

read_csv(file) ==
    RangeIndex([i \in 1..Len(file.rows) |->
        [id |-> IF HasCol(file.cols, "id") THEN <<IdDtype(file), file.rows[i].id>>
                ELSE <<"null", "">>,
         hash |-> file.rows[i].hash]])

\* The dtype of the id column of an in-memory frame ("empty" with no rows).
DtypeOf(s) == IF Len(s) = 0 THEN "empty" ELSE s[1].id[1]

Project(s) == [i \in 1..Len(s) |-> [id |-> s[i].id, hash |-> s[i].hash]]

(***************************************************************************)
(* snapshot_records (lines 164-210)                                        *)
(***************************************************************************)
SnapshotNotFound(file) == [none |-> TRUE, exc |-> "", cols |-> <<>>, rows |-> <<>>]

\* read_snapshots: the parsed file, or None when there is no file.  A file of
\* zero bytes makes read_csv raise EmptyDataError.
read_snapshots(file) ==
    [none |-> ~file.exists,
     exc |-> IF file.exists /\ file.cols = <<>> THEN "EmptyDataError" ELSE "",
     cols |-> file.cols,
     rows |-> IF file.exists THEN Project(read_csv(file)) ELSE <<>>]

MergeKeepFirst == "first"

NewRowsOnly(snapshot, stream_data) == stream_data

\* Line 195, pd.concat([snapshot, stream_data]): the rows of the snapshot, then
\* the new rows.
concat(snapshot, stream_data) == snapshot \o stream_data

\* The occurrence drop_duplicates(pk, keep=...) keeps at line 196.
MergeKeep == "last"

\* A table argument that is None.
None == [none |-> TRUE, cols |-> <<>>, rows |-> <<>>]

Table(cols, rows) == [none |-> FALSE, cols |-> cols, rows |-> rows]

AlwaysReturnsMerged(just_new) == TRUE

\* Line 198, "if not just_new: return merged_data".
ReturnsMerged(just_new) == ~just_new

\* The body of snapshot_records on the file at the stream's path: what it
\* raises, what it writes (write, cols, rows) and what it returns (ret).
snapshot_records(file, stream_data, just_new) ==
    LET snapshot == read_snapshots(file)
        merged_data == drop_duplicates(concat(snapshot.rows, stream_data.rows), MergeKeep)
    IN  IF snapshot.exc # ""
        THEN [exc |-> snapshot.exc, write |-> FALSE, cols |-> <<>>, rows |-> <<>>, ret |-> None]
        ELSE IF ~stream_data.none /\ ~snapshot.none
        THEN [exc |-> "", write |-> TRUE, cols |-> snapshot.cols, rows |-> merged_data,
              ret |-> IF ReturnsMerged(just_new) THEN Table(snapshot.cols, merged_data)
                      ELSE stream_data]
        ELSE IF ~stream_data.none /\ snapshot.none
        THEN [exc |-> "", write |-> TRUE, cols |-> stream_data.cols, rows |-> stream_data.rows,
              ret |-> stream_data]
        ELSE [exc |-> "", write |-> FALSE, cols |-> <<>>, rows |-> <<>>,
              ret |-> IF just_new THEN stream_data
                      ELSE IF snapshot.none THEN None
                      ELSE Table(snapshot.cols, snapshot.rows)]

(***************************************************************************)
(* drop_redundant (lines 231-288)                                          *)
(***************************************************************************)
Raise(name) == [exc |-> name, write |-> FALSE, cols |-> <<>>, rows |-> <<>>,
                ret |-> <<>>, flagcol |-> FALSE]

BatchKeepLast == "last"

\* The occurrence df.drop_duplicates(subset=pk) keeps at line 263.
BatchKeep == "first"

\* Line 277, updated_pk.isin(hash_df[pk]): isin against a DataFrame compares
\* cell by cell where the index labels (and column labels) agree.
isin(row, hash_df) ==
    \E i \in 1..Len(hash_df) : hash_df[i].idx = row.idx /\ hash_df[i].id = row.id

\* Lines 279-283: the left join on pk + ["hash"] with indicator, keeping the
\* rows that found no partner ("left_only").
left_only(df, hash_df, pk) ==
    SelectIdx(df, {i \in 1..Len(df) :
        ~\E j \in 1..Len(hash_df) :
            /\ hash_df[j].hash = df[i].hash
            /\ pk # <<>> => hash_df[j].id = df[i].id})

\* DataFrame.merge refuses key columns of which one holds strings and the
\* other numbers; a key column without rows on one side only is not looked
\* at.  With no rows on both sides the hash columns are an empty float column
\* (line 265 on an empty frame) and an empty object column: pandas versions
\* differ on that pair, so either outcome is allowed (strict).
merge_refused(df, hash_df, pk, strict) ==
    IF Len(df) > 0 /\ Len(hash_df) > 0
    THEN pk # <<>> /\ DtypeOf(df) # DtypeOf(hash_df)
    ELSE Len(df) = 0 /\ Len(hash_df) = 0 /\ strict

\* Line 284, df.merge(updated_pk, on=pk, how="left"): the _updated value of the
\* row of updated_pk with this key (updated_pk holds each key once, line 263).
lookup(updated_pk, id) ==
    \E i \in 1..Len(updated_pk) : updated_pk[i].id = id /\ updated_pk[i].updated

\* The rows drop_redundant returns: the batch columns, and _updated when the
\* frame has that column.
Returned(df, flags) ==
    [i \in 1..Len(df) |-> [id |-> df[i].id, a |-> df[i].a, b |-> df[i].b,
                           updated |-> flags[i]]]

drop_redundant(file, df_in, pk_in, updated_flag, strict) ==
    LET df0 == RangeIndex(df_in)
        df1 == IF pk_in.cols # <<>> THEN drop_duplicates(df0, BatchKeep) ELSE df0
        df == [i \in 1..Len(df1) |-> [hash |-> get_row_hash(df1[i])] @@ df1[i]]
    IN  IF file.exists
        THEN LET pk == pk_in.cols
                 read == read_csv(file)
                 hash_df == IF pk # <<>> THEN drop_duplicates(read, "first") ELSE read
                 kept == left_only(df, hash_df, pk)
                 updated_pk == [i \in 1..Len(df) |->
                                   [id |-> df[i].id, updated |-> isin(df[i], hash_df)]]
                 flags == [i \in 1..Len(kept) |-> lookup(updated_pk, kept[i].id)]
                 sr == snapshot_records(file, Table(pk \o <<"hash">>, Project(kept)), FALSE)
             IN  IF file.cols = <<>> THEN Raise("EmptyDataError")
                 ELSE IF pk # <<>> /\ ~HasCol(file.cols, "id") THEN Raise("KeyError")
                 ELSE IF merge_refused(df, hash_df, pk, strict) THEN Raise("ValueError")
                 ELSE IF ~(updated_flag /\ pk # <<>>) THEN Raise("UnboundLocalError")
                 ELSE [exc |-> sr.exc, write |-> sr.write, cols |-> sr.cols, rows |-> sr.rows,
                       ret |-> Returned(kept, flags), flagcol |-> TRUE]
        ELSE IF ~pk_in.isList THEN Raise("TypeError")
        ELSE LET sr == snapshot_records(file, Table(pk_in.cols \o <<"hash">>, Project(df)), FALSE)
             IN  [exc |-> sr.exc, write |-> sr.write, cols |-> sr.cols, rows |-> sr.rows,
                  ret |-> Returned(df, [i \in 1..Len(df) |-> FALSE]), flagcol |-> FALSE]

(***************************************************************************)
(* State: the snapshot files, and the calls of the current pipeline run    *)
(***************************************************************************)
SharedHashStream(name) == "hash"

\* drop_redundant snapshots name under the stream f"{name}.hash" (line 286).
HashStream(name) == name \o ".hash"

Streams == {HashStream(n) : n \in Names}

\* The record of one finished call: its arguments, the file it found (prior)
\* and left (after), the exception it raised ("" for none), the frame it
\* handed to to_csv (wrote) and what it returned.
Run(op, stream, df, data, pk, flag, prior, after, r) ==
    [op |-> op, stream |-> stream, df |-> df, data |-> data, pk |-> pk, flag |-> flag,
     prior |-> prior, after |-> after, exc |-> r.exc,
     wcols |-> r.cols, wrote |-> r.rows,
     ret |-> IF op = "drop_redundant" THEN r.ret ELSE <<>>,
     flagcol |-> IF op = "drop_redundant" THEN r.flagcol ELSE FALSE,
     tbl |-> IF op = "snapshot_records" THEN r.ret ELSE None]

NotWritten(file, r) == file

\* Lines 197 and 203: the file after a call that reached to_csv.
Written(file, r) == IF r.exc = "" /\ r.write THEN to_csv(r.cols, r.rows) ELSE file

Init ==
    /\ files = [s \in Streams |-> Absent]
    /\ pc = "idle"
    /\ runs = <<>>

\* The pandas builds a call may run on: they differ only on a merge of two
\* frames without rows (merge_refused).
Builds(df) == IF Len(df) = 0 THEN BOOLEAN ELSE {FALSE}

\* A pipeline run calls drop_redundant(df, name, output_dir, pk, updated_flag).
DropRedundant(df, name, pk, updated_flag) ==
    /\ pc = "idle"
    /\ \E strict \in Builds(df) :
       \E r \in {drop_redundant(files[HashStream(name)], df, pk, updated_flag, strict)} :
       \E after \in {Written(files[HashStream(name)], r)} :
         /\ files' = [files EXCEPT ![HashStream(name)] = after]
         /\ runs' = <<Run("drop_redundant", HashStream(name), df, None, pk, updated_flag,
                         files[HashStream(name)], after, r)>>
    /\ pc' = "called"

\* The batches of the run after one that supplied df: the same batch, or the
\* batch with the content of its first row changed.
NextBatches(df) ==
    {df} \cup {[df EXCEPT ![1] = [id |-> df[1].id, a |-> c[1], b |-> c[2]]] :
                  c \in IF Len(df) > 0 THEN Contents ELSE {}}

\* The next run calls drop_redundant for the same stream, pk and flag.
DropRedundantAgain ==
    /\ pc = "called"
    /\ runs[1].op = "drop_redundant"
    /\ \E df \in NextBatches(runs[1].df) :
       \E strict \in Builds(df) :
       \E r \in {drop_redundant(files[runs[1].stream], df, runs[1].pk, runs[1].flag, strict)} :
       \E after \in {Written(files[runs[1].stream], r)} :
         /\ files' = [files EXCEPT ![runs[1].stream] = after]
         /\ runs' = Append(runs, Run("drop_redundant", runs[1].stream, df, None, runs[1].pk,
                                     runs[1].flag, files[runs[1].stream], after, r))
    /\ pc' = "again"

\* Tables of (id, hash) rows a caller hands to snapshot_records: keys of one
\* dtype, hashes of rows with that key.
HashRows(PKs) == {[id |-> r.id, hash |-> get_row_hash(r)] : r \in RowsOf(PKs)}

Tables == {None} \cup {Table(<<"id", "hash">>, t) :
              t \in SeqsUpTo(HashRows(PKInts), MaxBatchLen)
                    \cup SeqsUpTo(HashRows(PKStrs), MaxBatchLen)}

\* A caller calls snapshot_records(stream_data, stream, snapshot_dir, "id",
\* just_new) on a stream whose snapshot, if any, has the id column.
SnapshotRecords(stream_data, stream, just_new) ==
    /\ pc = "idle"
    /\ files[stream].exists => HasCol(files[stream].cols, "id")
    /\ \E r \in {snapshot_records(files[stream], stream_data, just_new)} :
       \E after \in {Written(files[stream], r)} :
         /\ files' = [files EXCEPT ![stream] = after]
         /\ runs' = <<Run("snapshot_records", stream, <<>>, stream_data,
                         [isList |-> FALSE, cols |-> <<"id">>], just_new,
                         files[stream], after, r)>>
    /\ pc' = "called"

\* The caller takes the results; the call records go with its frame.
Return ==
    /\ pc \in {"called", "again", "third"}
    /\ pc' = "idle"
    /\ runs' = <<>>
    /\ UNCHANGED files

Next ==
    \/ \E df \in Batches, name \in Names, pk \in PkArgs, updated_flag \in BOOLEAN :
            DropRedundant(df, name, pk, updated_flag)
    \/ \E stream_data \in Tables, stream \in Streams, just_new \in BOOLEAN :
            SnapshotRecords(stream_data, stream, just_new)
    \/ Return

Spec == Init /\ [][Next]_vars

\* to_csv opens the snapshot path itself for writing (lines 197, 203): the old
\* content is gone once the file is open, and an I/O error or the death of the
\* process after k of the lines (the header, then the rows) leaves those k lines.
to_csv_interrupted(cols, rows, k) ==
    IF k = 0 THEN [exists |-> TRUE, cols |-> <<>>, rows |-> <<>>]
    ELSE to_csv(cols, SubSeq(rows, 1, k - 1))

\* drop_redundant whose snapshot write at line 286 fails after some of the lines.
DropRedundantWriteFails(df, name, pk, updated_flag) ==
    /\ pc = "idle"
    /\ \E strict \in Builds(df) :
       \E r \in {drop_redundant(files[HashStream(name)], df, pk, updated_flag, strict)} :
         /\ r.exc = "" /\ r.write
         /\ \E k \in 0..Len(r.rows) :
            \E after \in {to_csv_interrupted(r.cols, r.rows, k)} :
              /\ files' = [files EXCEPT ![HashStream(name)] = after]
              /\ runs' = <<Run("drop_redundant", HashStream(name), df, None, pk,
                              updated_flag, files[HashStream(name)], after,
                              [r EXCEPT !.exc = "OSError", !.ret = <<>>])>>
    /\ pc' = "called"

\* snapshot_records whose write at line 197 or 203 fails after some of the lines.
SnapshotRecordsWriteFails(stream_data, stream, just_new) ==
    /\ pc = "idle"
    /\ files[stream].exists => HasCol(files[stream].cols, "id")
    /\ \E r \in {snapshot_records(files[stream], stream_data, just_new)} :
         /\ r.exc = "" /\ r.write
         /\ \E k \in 0..Len(r.rows) :
            \E after \in {to_csv_interrupted(r.cols, r.rows, k)} :
              /\ files' = [files EXCEPT ![stream] = after]
              /\ runs' = <<Run("snapshot_records", stream, <<>>, stream_data,
                              [isList |-> FALSE, cols |-> <<"id">>], just_new,
                              files[stream], after,
                              [r EXCEPT !.exc = "OSError", !.ret = None])>>
    /\ pc' = "called"

NextCrash ==
    \/ Next
    \/ \E df \in Batches, name \in Names, pk \in PkArgs, updated_flag \in BOOLEAN :
            DropRedundantWriteFails(df, name, pk, updated_flag)
    \/ \E stream_data \in Tables, stream \in Streams, just_new \in BOOLEAN :
            SnapshotRecordsWriteFails(stream_data, stream, just_new)

SpecCrash == Init /\ [][NextCrash]_vars

\* Pipelines that run drop_redundant twice in a row before returning.
NextTwice ==
    \/ Next
    \/ DropRedundantAgain

SpecTwice == Init /\ [][NextTwice]_vars

\* The run after the second calls drop_redundant for the same stream, pk and
\* flag, with the batch of the first run (a content that reverts) or of the
\* second.
DropRedundantThird ==
    /\ pc = "again"
    /\ \E df \in {runs[1].df, runs[2].df} :
       \E strict \in Builds(df) :
       \E r \in {drop_redundant(files[runs[1].stream], df, runs[1].pk, runs[1].flag, strict)} :
       \E after \in {Written(files[runs[1].stream], r)} :
         /\ files' = [files EXCEPT ![runs[1].stream] = after]
         /\ runs' = Append(runs, Run("drop_redundant", runs[1].stream, df, None, runs[1].pk,
                                     runs[1].flag, files[runs[1].stream], after, r))
    /\ pc' = "third"

\* Pipelines that run drop_redundant up to three times in a row.
NextThrice ==
    \/ NextTwice
    \/ DropRedundantThird

SpecThrice == Init /\ [][NextThrice]_vars

\* Stream names of a pipeline that tracks two entities: line 286 derives the
\* stream of an entity's hash snapshot from its name, so the second name is
\* also the derived stream of the first.
StreamNames == {"orders", "orders.hash"}

\* Every snapshot path f"{snapshot_dir}/{stream}.snapshot.csv" those names lead to.
AllStreams == StreamNames \cup {HashStream(n) : n \in StreamNames}

\* Longest batch / table of a call in the two-entity pipeline.
MaxStreamBatchLen == 1

StreamBatches == SeqsUpTo(RowsOf(PKInts), MaxStreamBatchLen)

StreamTables == {None} \cup {Table(<<"id", "hash">>, t) :
                    t \in SeqsUpTo(HashRows(PKInts), MaxStreamBatchLen)}

InitStreams ==
    /\ files = [s \in AllStreams |-> Absent]
    /\ pc = "idle"
    /\ runs = <<>>

NextStreams ==
    \/ \E df \in StreamBatches, name \in StreamNames, pk \in PkArgs, updated_flag \in BOOLEAN :
            DropRedundant(df, name, pk, updated_flag)
    \/ \E stream_data \in StreamTables, stream \in StreamNames, just_new \in BOOLEAN :
            SnapshotRecords(stream_data, stream, just_new)
    \/ Return

SpecStreams == InitStreams /\ [][NextStreams]_vars

(***************************************************************************)
(* Two invocations on one stream at once.  Nothing in etl_utils.py locks   *)
(* the snapshot: an invocation is the steps below, and the steps of two    *)
(* processes interleave freely.  Here pc and runs hold one entry per       *)
(* process.                                                                *)
(***************************************************************************)
Procs == {1, 2}

Other(p) == 3 - p

\* The (pk, hash) rows drop_redundant hands to snapshot_records at line 286:
\* df[pk + ["hash"]] of the rows it is about to return.
Entries(ret) == [i \in 1..Len(ret) |-> [id |-> ret[i].id, hash |-> get_row_hash(ret[i])]]

\* Batches and tables of the concurrent callers: string keys.
ConcBatches == SeqsUpTo(RowsOf(PKStrs), MaxStreamBatchLen)

ConcTables == {Table(<<"id", "hash">>, t) : t \in SeqsUpTo(HashRows(PKStrs), MaxStreamBatchLen)}

\* The pk of the stream, as a list or as a bare name.
ConcPkArgs == {pk \in PkArgs : pk.cols # <<>>}

\* A process not in a call.
NoCall == [op |-> "", stream |-> "", new |-> None, seen |-> Absent, exc |-> "",
           wrote |-> FALSE, overlap |-> FALSE, stale |-> FALSE, second |-> FALSE]

InitConc ==
    /\ files = [s \in Streams |-> Absent]
    /\ pc = [p \in Procs |-> "idle"]
    /\ runs = [p \in Procs |-> NoCall]

\* The other process is inside a call.
Busy(p) == pc[p] \in {"hashed", "read"}

\* What process p records when it enters a call.
Enter(p, op, stream, new, seen, exc) ==
    [runs EXCEPT ![p] = [op |-> op, stream |-> stream, new |-> new, seen |-> seen,
                         exc |-> exc, wrote |-> FALSE, overlap |-> Busy(Other(p)),
                         stale |-> FALSE, second |-> pc[Other(p)] = "done"],
                 ![Other(p)].overlap = @ \/ Busy(Other(p))]

\* Lines 259-286 of drop_redundant up to the call of snapshot_records: the
\* hash snapshot is read (line 270) and the batch filtered against it.
DropRedundantFilters(p, df, name, pk, updated_flag) ==
    /\ pc[p] = "idle"
    /\ \E strict \in Builds(df) :
       \E r \in {drop_redundant(files[HashStream(name)], df, pk, updated_flag, strict)} :
         /\ runs' = Enter(p, "drop_redundant", HashStream(name),
                          Table(pk.cols \o <<"hash">>, Entries(r.ret)), Absent, r.exc)
         /\ pc' = [pc EXCEPT ![p] = IF r.exc = "" THEN "hashed" ELSE "done"]
    /\ UNCHANGED files

\* Line 188 inside the snapshot_records call of drop_redundant (line 286).
ReadSnapshots(p) ==
    /\ pc[p] = "hashed"
    /\ runs' = [runs EXCEPT ![p].seen = files[runs[p].stream]]
    /\ pc' = [pc EXCEPT ![p] = "read"]
    /\ UNCHANGED files

\* snapshot_records called directly: it starts with the read of line 188.
SnapshotRecordsReads(p, stream_data, stream) ==
    /\ pc[p] = "idle"
    /\ files[stream].exists => HasCol(files[stream].cols, "id")
    /\ runs' = Enter(p, "snapshot_records", stream, stream_data, files[stream], "")
    /\ pc' = [pc EXCEPT ![p] = "read"]
    /\ UNCHANGED files

\* Lines 193-204: the merge with the snapshot as it was read, and to_csv.  A
\* process that read the file before this write now holds a stale snapshot.
WriteSnapshot(p) ==
    /\ pc[p] = "read"
    /\ \E r \in {snapshot_records(runs[p].seen, runs[p].new, FALSE)} :
         /\ files' = [files EXCEPT ![runs[p].stream] = Written(files[runs[p].stream], r)]
         /\ runs' = [runs EXCEPT ![p].exc = r.exc,
                                 ![p].wrote = (r.exc = "" /\ r.write),
                                 ![Other(p)].stale = @ \/ (pc[Other(p)] = "read" /\ r.write)]
    /\ pc' = [pc EXCEPT ![p] = "done"]

\* Both invocations are over; the processes go on to their next runs.
BothReturn ==
    /\ \A p \in Procs : pc[p] = "done"
    /\ pc' = [p \in Procs |-> "idle"]
    /\ runs' = [p \in Procs |-> NoCall]
    /\ UNCHANGED files

NextConc ==
    \/ \E p \in Procs, df \in ConcBatches, name \in Names, pk \in ConcPkArgs,
          updated_flag \in BOOLEAN : DropRedundantFilters(p, df, name, pk, updated_flag)
    \/ \E p \in Procs : ReadSnapshots(p)
    \/ \E p \in Procs, stream_data \in ConcTables, stream \in Streams :
            SnapshotRecordsReads(p, stream_data, stream)
    \/ \E p \in Procs : WriteSnapshot(p)
    \/ BothReturn

SpecConc == InitConc /\ [][NextConc]_vars

(***************************************************************************)
(* Vocabulary of the properties                                            *)
(***************************************************************************)
IsDrop(r) == r.op = "drop_redundant"

IsSnap(r) == r.op = "snapshot_records"

\* The batch columns of a returned row.
Content(row) == [id |-> row.id, a |-> row.a, b |-> row.b]

Contents_of(ret) == [i \in 1..Len(ret) |-> Content(ret[i])]

\* The rows of a batch that repeat no earlier row's key.
FirstOccurrences(df) ==
    SelectIdx(df, {i \in 1..Len(df) : \A j \in 1..(i - 1) : df[j].id # df[i].id})

\* The (key text, hash) line a batch row stands for in a snapshot file.
Entry(row) == [id |-> row.id[2], hash |-> get_row_hash(row)]

Range(s) == {s[i] : i \in 1..Len(s)}

Keys(s) == {s[i].id : i \in 1..Len(s)}

\* The last row of s with key p.
LastWith(s, p) == s[CHOOSE i \in 1..Len(s) : s[i].id = p /\ \A j \in (i + 1)..Len(s) : s[j].id # p]

Count(s, p) == Cardinality({i \in 1..Len(s) : s[i].id = p})

(***************************************************************************)
(* C3  New-row detection                                                   *)
(***************************************************************************)
\* C3 as stated: with no hash snapshot for the stream, drop_redundant (pk a
\* list) on a nonempty batch returns every input row and creates a snapshot
\* with one (pk, hash) line per input row.
C3_AllRowsRetained ==
    \A k \in 1..Len(runs) :
        LET r == runs[k] IN
        (IsDrop(r) /\ ~r.prior.exists /\ Len(r.df) > 0 /\ r.pk.isList)
            => /\ r.exc = ""
               /\ Contents_of(r.ret) = r.df
               /\ r.after.exists
               /\ Len(r.after.rows) = Len(r.df)

\* C3 amended: with no hash snapshot for the stream and pk a list of column
\* names, drop_redundant on a nonempty batch returns, without a flag column,
\* the rows of the batch that repeat no earlier row's PK value (the whole
\* batch when pk is empty), and creates a snapshot that holds one (pk, hash)
\* line per returned row, in order.
C3_NewRows ==
    \A k \in 1..Len(runs) :
        LET r == runs[k]
            kept == IF r.pk.cols = <<>> THEN r.df ELSE FirstOccurrences(r.df)
        IN  (IsDrop(r) /\ ~r.prior.exists /\ Len(r.df) > 0 /\ r.pk.isList)
            => /\ r.exc = ""
               /\ Contents_of(r.ret) = kept
               /\ ~r.flagcol
               /\ r.after.exists
               /\ r.after.cols = r.pk.cols \o <<"hash">>
               /\ Len(r.after.rows) = Len(kept)
               /\ \A i \in 1..Len(kept) :
                     /\ r.after.rows[i].hash = get_row_hash(kept[i])
                     /\ r.pk.cols # <<>> => r.after.rows[i].id = kept[i].id[2]

\* A first run whose batch repeats a key: the repeat is gone from the result
\* and the new snapshot has one line per returned row.
C3_Witness ==
    \E k \in 1..Len(runs) :
        LET r == runs[k] IN
        /\ IsDrop(r) /\ ~r.prior.exists /\ r.pk.isList /\ r.pk.cols # <<>>
        /\ Len(r.df) = 2 /\ r.df[1].id = r.df[2].id /\ r.df[1] # r.df[2]
        /\ r.exc = "" /\ Len(r.ret) = 1 /\ Len(r.after.rows) = 1

(***************************************************************************)
(* C5  PK collision resolution in merge                                    *)
(***************************************************************************)
\* C5: when snapshot_records merges an existing snapshot (as read back) with
\* new rows, the merged frame holds exactly one row per PK value of either;
\* for a PK value among the new rows it is the last new row with it, for a PK
\* value of the existing snapshot alone it is the (last) existing row.  The
\* merged frame is what is returned when just_new is false.
C5_MergeKeepsNew ==
    \A k \in 1..Len(runs) :
        LET r == runs[k]
            existing == Project(read_csv(r.prior))
            new == r.data.rows
            merged == r.wrote
        IN  (IsSnap(r) /\ ~r.data.none /\ r.prior.exists /\ r.exc = "")
            => /\ Keys(merged) = Keys(existing) \cup Keys(new)
               /\ \A p \in Keys(merged) :
                     /\ Count(merged, p) = 1
                     /\ LastWith(merged, p) =
                            IF p \in Keys(new) THEN LastWith(new, p) ELSE LastWith(existing, p)
               /\ ~r.flag => r.tbl.rows = merged

\* A merge in which a new row meets an existing row with the same PK value and
\* a different hash, next to an existing row no new row touches.
C5_Witness ==
    \E k \in 1..Len(runs) :
        LET r == runs[k]
            existing == Project(read_csv(r.prior))
        IN  /\ IsSnap(r) /\ ~r.data.none /\ r.prior.exists /\ r.exc = ""
            /\ \E p \in Keys(existing) \cap Keys(r.data.rows) :
                  /\ LastWith(existing, p).hash # LastWith(r.data.rows, p).hash
                  /\ LastWith(r.wrote, p) = LastWith(r.data.rows, p)
            /\ Keys(existing) \ Keys(r.data.rows) # {}

(***************************************************************************)
(* C6  Batch-internal dedup                                                *)
(***************************************************************************)
\* C6: with a non-empty pk, a call that returns gives at most one row per PK
\* value; a returned row is the first row of the batch with its PK value, and
\* it is the first row's hash that the snapshot takes for the PK value of a
\* returned row.
C6_FirstOccurrenceOnly ==
    \A k \in 1..Len(runs) :
        LET r == runs[k] IN
        (IsDrop(r) /\ r.pk.cols # <<>> /\ r.exc = "")
            => /\ \A i, j \in 1..Len(r.ret) : r.ret[i].id = r.ret[j].id => i = j
               /\ \A i \in 1..Len(r.ret) :
                     LET first == CHOOSE n \in 1..Len(r.df) :
                                     /\ r.df[n].id = r.ret[i].id
                                     /\ \A m \in 1..(n - 1) : r.df[m].id # r.ret[i].id
                     IN  /\ Content(r.ret[i]) = r.df[first]
                         /\ Entry(r.df[first]) \in Range(r.after.rows)

\* A batch with two rows of one PK value and different content, against an
\* existing snapshot: the call returns the first of them.
C6_Witness ==
    \E k \in 1..Len(runs) :
        LET r == runs[k] IN
        /\ IsDrop(r) /\ r.pk.cols # <<>> /\ r.exc = "" /\ r.prior.exists
        /\ Len(r.df) = 2 /\ r.df[1].id = r.df[2].id /\ r.df[1] # r.df[2]
        /\ Contents_of(r.ret) = <<r.df[1]>>

(***************************************************************************)
(* C1  Idempotence                                                         *)
(***************************************************************************)
\* C1: drop_redundant called a second time with the same (nonempty) batch,
\* stream, pk and flag, right after a first call that returned, returns an
\* empty batch.
C1_Idempotence ==
    (pc = "again" /\ runs[1].exc = "" /\ runs[2].df = runs[1].df /\ Len(runs[1].df) > 0)
        => (runs[2].exc = "" /\ runs[2].ret = <<>>)

(***************************************************************************)
(* C2  Update detection                                                    *)
(***************************************************************************)
\* C2: when the snapshot holds exactly one line for key k, with hash h1, and
\* the batch's row for k hashes to h2 # h1, drop_redundant returns that row
\* and leaves exactly one line for k in the snapshot, with hash h2.
C2_UpdateDetection ==
    \A n \in 1..Len(runs) :
        LET r == runs[n]
            old(k) == {j \in 1..Len(r.prior.rows) : r.prior.rows[j].id = k}
            new(k) == {j \in 1..Len(r.after.rows) : r.after.rows[j].id = k}
        IN  (IsDrop(r) /\ r.prior.exists /\ HasCol(r.prior.cols, "id") /\ r.pk.cols # <<>>)
            => \A i \in 1..Len(r.df) :
                 ( /\ \A m \in 1..(i - 1) : r.df[m].id # r.df[i].id
                   /\ Cardinality(old(r.df[i].id[2])) = 1
                   /\ \A j \in old(r.df[i].id[2]) : r.prior.rows[j].hash # get_row_hash(r.df[i]) )
                 => /\ r.exc = ""
                    /\ r.df[i] \in Range(Contents_of(r.ret))
                    /\ Cardinality(new(r.df[i].id[2])) = 1
                    /\ \A j \in new(r.df[i].id[2]) : r.after.rows[j].hash = get_row_hash(r.df[i])

(***************************************************************************)
(* C4  Redundancy filter                                                   *)
(***************************************************************************)
\* C4: with a snapshot in place, drop_redundant returns exactly the rows of
\* the batch (first occurrence per PK) whose (PK, hash) pair is not in the
\* prior snapshot, each once, and leaves the prior entries with the entries of
\* the returned rows put in (replacing the entry of the same PK).
C4_RedundancyFilter ==
    \A n \in 1..Len(runs) :
        LET r == runs[n]
            dd == FirstOccurrences(r.df)
            kept == SelectIdx(dd, {i \in 1..Len(dd) : Entry(dd[i]) \notin Range(r.prior.rows)})
        IN  ( /\ IsDrop(r) /\ r.prior.exists /\ HasCol(r.prior.cols, "id")
              /\ r.pk.cols # <<>> /\ Len(r.df) > 0 )
            => /\ r.exc = ""
               /\ Contents_of(r.ret) = kept
               /\ Range(r.after.rows) =
                     {e \in Range(r.prior.rows) : \A i \in 1..Len(kept) : kept[i].id[2] # e.id}
                        \cup {Entry(kept[i]) : i \in 1..Len(kept)}

(***************************************************************************)
(* C7  A changed value under the same PK is retained                       *)
(***************************************************************************)
\* C7: when the first row of a batch comes back in the next run with the same
\* PK and a different value in some column, its hash differs from the one
\* snapshotted and the run returns it.
C7_ChangedRowRetained ==
    ( /\ pc = "again" /\ runs[1].exc = "" /\ runs[2].exc = ""
      /\ runs[1].pk.cols # <<>> /\ Len(runs[1].df) > 0
      /\ runs[2].df[1] # runs[1].df[1] )
        => /\ get_row_hash(runs[2].df[1]) # get_row_hash(runs[1].df[1])
           /\ runs[2].df[1] \in Range(Contents_of(runs[2].ret))

(***************************************************************************)
(* C8  Snapshot uniqueness                                                 *)
(***************************************************************************)
\* C8: a persisted snapshot with a PK column holds at most one line per PK
\* value.
C8_OneRowPerPK ==
    \A s \in Streams :
        (files[s].exists /\ HasCol(files[s].cols, "id"))
            => \A i, j \in 1..Len(files[s].rows) :
                  files[s].rows[i].id = files[s].rows[j].id => i = j

(***************************************************************************)
(* C9  Write atomicity on failure                                          *)
(***************************************************************************)
\* C9: after a call whose write over an existing snapshot failed, the file is
\* the complete prior snapshot or the complete new one.
C9_OldOrNew ==
    \A n \in 1..Len(runs) :
        LET r == runs[n] IN
        (r.exc = "OSError" /\ r.prior.exists /\ Len(r.prior.rows) > 0)
            => (r.after = r.prior \/ r.after = to_csv(r.wcols, r.wrote))

(***************************************************************************)
(* C10  Updated flag                                                       *)
(***************************************************************************)
\* C10: with updated_flag set, a non-empty pk and an existing snapshot, the
\* _updated flag of a returned row is true exactly when the row's PK value has
\* a line in the prior snapshot.
C10_UpdatedFlag ==
    \A n \in 1..Len(runs) :
        LET r == runs[n] IN
        (IsDrop(r) /\ r.flag /\ r.pk.cols # <<>> /\ r.prior.exists /\ r.exc = "")
            => /\ r.flagcol
               /\ \A i \in 1..Len(r.ret) :
                     r.ret[i].updated <=>
                        \E j \in 1..Len(r.prior.rows) : r.prior.rows[j].id = r.ret[i].id[2]

(***************************************************************************)
(* C11  PKs are never pruned                                               *)
(***************************************************************************)
\* The PK values of a snapshot, as read_csv reads them, by their text.
KeyTexts(file) == {read_csv(file)[i].id[2] : i \in 1..Len(file.rows)}

\* C11: no call removes a PK value from a stream's snapshot: a PK value the
\* snapshot holds before a step it holds after the step, whatever batch the
\* call was given.
C11_NeverPruned ==
    [][\A s \in Streams :
          (files[s].exists /\ HasCol(files[s].cols, "id"))
              => /\ files'[s].exists /\ HasCol(files'[s].cols, "id")
                 /\ KeyTexts(files[s]) \subseteq KeyTexts(files'[s])]_vars

\* A drop_redundant call that returned rows and rewrote a snapshot holding a
\* PK value its batch does not have: the value is still in the snapshot.
C11_Witness ==
    \E k \in 1..Len(runs) :
        LET r == runs[k] IN
        /\ IsDrop(r) /\ r.exc = "" /\ r.prior.exists /\ Len(r.ret) > 0
        /\ r.after # r.prior
        /\ \E i \in 1..Len(r.prior.rows) :
              /\ \A n \in 1..Len(r.df) : r.df[n].id[2] # r.prior.rows[i].id
              /\ \E j \in 1..Len(r.after.rows) : r.after.rows[j].id = r.prior.rows[i].id

(***************************************************************************)
(* C12  Stream independence                                                *)
(***************************************************************************)
\* The two snapshots kept under a stream name: the one snapshot_records keeps
\* for it and the hash snapshot drop_redundant keeps for it.
SnapshotsOf(name) == {name, HashStream(name)}

\* The step is a drop_redundant call for name (with the arguments on record).
DropRedundantFor(name) ==
    /\ pc = "idle" /\ pc' = "called" /\ IsDrop(runs'[1])
    /\ DropRedundant(runs'[1].df, name, runs'[1].pk, runs'[1].flag)

\* The step is a snapshot_records call for stream.
SnapshotRecordsFor(stream) ==
    /\ pc = "idle" /\ pc' = "called" /\ IsSnap(runs'[1])
    /\ SnapshotRecords(runs'[1].data, stream, runs'[1].flag)

\* C12: a drop_redundant or snapshot_records call for one stream name leaves
\* the persisted snapshots of every other stream name unchanged.
C12_StreamIndependence ==
    [][\A name \in StreamNames :
          (DropRedundantFor(name) \/ SnapshotRecordsFor(name))
              => \A other \in StreamNames \ {name} :
                    \A s \in SnapshotsOf(other) : files'[s] = files[s]]_vars

\* C12 amended: a drop_redundant call for a name touches no snapshot but the
\* one of the stream f"{name}.hash", which is not the hash snapshot of any
\* other name; a snapshot_records call for a stream touches no snapshot but
\* that stream's.  (A snapshot_records stream named f"{name}.hash" is the hash
\* snapshot of name: those two calls share one snapshot.)
C12_OnePathPerCall ==
    [][\A name \in StreamNames :
          /\ DropRedundantFor(name)
                => /\ \A s \in AllStreams \ {HashStream(name)} : files'[s] = files[s]
                   /\ \A other \in StreamNames \ {name} :
                         files'[HashStream(other)] = files[HashStream(other)]
          /\ SnapshotRecordsFor(name)
                => \A s \in AllStreams \ {name} : files'[s] = files[s]]_vars

\* drop_redundant has just rewritten the hash snapshot of one name while the
\* hash snapshot of the other name and a snapshot_records stream hold rows.
C12_Witness ==
    /\ pc = "called" /\ IsDrop(runs[1]) /\ runs[1].exc = ""
    /\ runs[1].stream = HashStream("orders.hash")
    /\ runs[1].prior.exists /\ runs[1].after # runs[1].prior
    /\ Len(files[HashStream("orders")].rows) > 0
    /\ Len(files["orders"].rows) > 0

(***************************************************************************)
(* C13  The updated flag is optional                                       *)
(***************************************************************************)
\* C13: drop_redundant with updated_flag false, or with an empty pk, on a
\* nonempty batch against an existing hash snapshot (with the pk columns)
\* returns without raising, gives a batch without a flag column, and leaves
\* the entry of every returned row in the snapshot.
C13_FlagOptional ==
    \A n \in 1..Len(runs) :
        LET r == runs[n] IN
        ( /\ IsDrop(r) /\ (~r.flag \/ r.pk.cols = <<>>) /\ Len(r.df) > 0
          /\ r.prior.exists /\ r.prior.cols = r.pk.cols \o <<"hash">> )
            => /\ r.exc = ""
               /\ ~r.flagcol
               /\ \A i \in 1..Len(r.ret) :
                     \E j \in 1..Len(r.after.rows) :
                         r.after.rows[j].hash = get_row_hash(Content(r.ret[i]))

(***************************************************************************)
(* C14  Lost update under concurrency                                      *)
(***************************************************************************)
\* The lines of a snapshot file that the rows of a table become.
Lines(tbl) == to_csv(<<"id", "hash">>, tbl.rows).rows

\* Both invocations are over and each has written the snapshot.
BothWrote == \A p \in Procs : pc[p] = "done" /\ runs[p].exc = "" /\ runs[p].wrote

\* The key of line i of lines comes again further down.
Superseded(lines, i) == \E j \in (i + 1)..Len(lines) : lines[j].id = lines[i].id

\* C14: of two invocations on one stream that both wrote, (a) when one read
\* the snapshot before the other's write and wrote after it, the final
\* snapshot has no line for a PK the other wrote, unless the PK was in the
\* snapshot as read or in the late writer's own rows: that update is lost;
\* (b) when the second invocation began after the first was over, the final
\* snapshot holds every entry of both, but for an entry whose PK a later
\* entry carries.
C14_LostUpdate ==
    BothWrote =>
        \A p \in Procs :
            LET q == Other(p)
                mine == Lines(runs[p].new)
                theirs == Lines(runs[q].new)
                final == files[runs[p].stream].rows
            IN  /\ runs[q].stale =>
                      \A i \in 1..Len(mine) :
                          ( /\ \A j \in 1..Len(runs[q].seen.rows) : runs[q].seen.rows[j].id # mine[i].id
                            /\ \A j \in 1..Len(theirs) : theirs[j].id # mine[i].id )
                              => \A j \in 1..Len(final) : final[j].id # mine[i].id
                /\ runs[q].second =>
                      /\ \A i \in 1..Len(mine) :
                            \/ mine[i] \in Range(final)
                            \/ Superseded(mine, i)
                            \/ \E j \in 1..Len(theirs) : theirs[j].id = mine[i].id
                      /\ \A i \in 1..Len(theirs) :
                            theirs[i] \in Range(final) \/ Superseded(theirs, i)

\* Two invocations overlapped on an existing snapshot and both wrote: the
\* snapshot has no line for a PK that one of them wrote.
C14_Witness ==
    /\ BothWrote
    /\ \E p \in Procs :
          /\ runs[Other(p)].stale /\ runs[Other(p)].seen.exists
          /\ runs[Other(p)].op = "drop_redundant"
          /\ \E i \in 1..Len(runs[p].new.rows) :
                \A j \in 1..Len(files[runs[p].stream].rows) :
                    files[runs[p].stream].rows[j].id # runs[p].new.rows[i].id[2]

(***************************************************************************)
(* C15  Return value of snapshot_records                                   *)
(***************************************************************************)
\* C15: snapshot_records, with new rows and an existing snapshot, returns the
\* merged table (the table it persists, with one row for every PK value of
\* the snapshot and of the new rows) when just_new is false and the new rows
\* as supplied when just_new is true; with new rows and no snapshot it returns
\* the new rows; with no new rows (None) it writes nothing and returns the
\* existing snapshot, or None when there is none, when just_new is false, and
\* None when just_new is true.  The file it leaves is the one the call with
\* the other value of just_new leaves.
C15_ReturnValue ==
    \A n \in 1..Len(runs) :
        LET r == runs[n]
            existing == Project(read_csv(r.prior))
        IN  IsSnap(r) =>
            /\ r.exc = ""
            /\ (~r.data.none /\ r.prior.exists /\ ~r.flag)
                  => /\ ~r.tbl.none
                     /\ to_csv(r.tbl.cols, r.tbl.rows) = r.after
                     /\ Keys(r.tbl.rows) = Keys(existing) \cup Keys(r.data.rows)
                     /\ \A p \in Keys(r.tbl.rows) : Count(r.tbl.rows, p) = 1
            /\ (~r.data.none /\ r.prior.exists /\ r.flag) => r.tbl = r.data
            /\ (~r.data.none /\ ~r.prior.exists)
                  => r.tbl = r.data /\ r.after = to_csv(r.data.cols, r.data.rows)
            /\ r.data.none
                  => /\ r.after = r.prior
                     /\ r.flag => r.tbl = None
                     /\ (~r.flag /\ ~r.prior.exists) => r.tbl = None
                     /\ (~r.flag /\ r.prior.exists)
                           => r.tbl = Table(r.prior.cols, existing)
            /\ r.after = Written(r.prior, snapshot_records(r.prior, r.data, ~r.flag))

\* A call with just_new true that merged its new rows into a snapshot with a
\* PK value of its own: it returned the new rows, not the longer merged table.
C15_Witness ==
    \E n \in 1..Len(runs) :
        LET r == runs[n] IN
        /\ IsSnap(r) /\ r.flag /\ ~r.data.none /\ r.prior.exists /\ r.exc = ""
        /\ Len(r.data.rows) > 0
        /\ r.tbl = r.data
        /\ Len(r.after.rows) > Len(r.data.rows)
        /\ r.after # r.prior

(***************************************************************************)
(* C16  A run that retains nothing does not alter the snapshot             *)
(***************************************************************************)
\* Row i of the batch of call r is redundant: its (PK, hash) pair (its hash,
\* with an empty pk) is on a line of the snapshot the call found.
Redundant(r, i) ==
    \E j \in 1..Len(r.prior.rows) :
        /\ r.prior.rows[j].hash = get_row_hash(r.df[i])
        /\ r.pk.cols # <<>> => r.prior.rows[j].id = r.df[i].id[2]

\* C16: when a snapshot exists and the batch is empty or all its rows are
\* redundant, drop_redundant returns an empty batch and the set of (PK, hash)
\* entries of the snapshot is after the call what it was before.
C16_NothingRetained ==
    \A n \in 1..Len(runs) :
        LET r == runs[n] IN
        ( /\ IsDrop(r) /\ r.prior.exists /\ r.prior.cols = r.pk.cols \o <<"hash">>
          /\ \A i \in 1..Len(r.df) : Redundant(r, i) )
            => /\ r.exc = ""
               /\ r.ret = <<>>
               /\ Range(r.after.rows) = Range(r.prior.rows)

(***************************************************************************)
(* C17  Only the latest hash per PK counts                                 *)
(***************************************************************************)
\* C17: over three successive drop_redundant runs on a stream without a
\* snapshot, with a non-empty list pk, in which the first row of the batch has
\* hash h1, then h2 # h1, then h1 again, every run returns that row, and the
\* snapshot ends with one line for its PK, with hash h1.
C17_RevertedContentRetained ==
    ( /\ pc = "third" /\ ~runs[1].prior.exists
      /\ runs[1].pk.isList /\ runs[1].pk.cols # <<>> /\ Len(runs[1].df) > 0
      /\ get_row_hash(runs[2].df[1]) # get_row_hash(runs[1].df[1])
      /\ runs[3].df = runs[1].df )
        => /\ \A n \in 1..3 :
                 /\ runs[n].exc = ""
                 /\ runs[n].df[1] \in Range(Contents_of(runs[n].ret))
           /\ \E j \in 1..Len(runs[3].after.rows) :
                 runs[3].after.rows[j] = Entry(runs[1].df[1])
           /\ \A i, j \in 1..Len(runs[3].after.rows) :
                 ( /\ runs[3].after.rows[i].id = runs[1].df[1].id[2]
                   /\ runs[3].after.rows[j].id = runs[1].df[1].id[2] ) => i = j

(***************************************************************************)
(* C18  pk as one column name                                              *)
(***************************************************************************)
\* The one-element list of the column name given as pk.
AsList(pk) == [isList |-> TRUE, cols |-> pk.cols]

\* C18: a drop_redundant call with pk given as one column name ends as the
\* call with the one-element list of that name does on the same (nonempty)
\* batch and snapshot, or lack of one: the same outcome, the same returned batch, the same snapshot.
C18_NameAsList ==
    \A n \in 1..Len(runs) :
        LET r == runs[n] IN
        (IsDrop(r) /\ ~r.pk.isList /\ Len(r.df) > 0)
            => \E strict \in Builds(r.df) :
                  LET l == drop_redundant(r.prior, r.df, AsList(r.pk), r.flag, strict)
                  IN  /\ r.exc = l.exc
                      /\ r.ret = l.ret
                      /\ r.flagcol = l.flagcol
                      /\ r.after = Written(r.prior, l)

====
